---- MODULE Spec2Model ----
(***************************************************************************)
(* Model of the PM2 log streaming service of modl-gg/admin                 *)
(* (server/services/PM2LogService.ts): the attach / reconnect state        *)
(* machine, its timers and child processes, and the per-record pipeline;   *)
(* and of the admin login (server/routes/auth.ts, EmailService.ts) and the *)
(* session and IP check of server/middleware/authMiddleware.ts.            *)
(***************************************************************************)
EXTENDS Naturals, Integers, Sequences, FiniteSets, TLC

\* ------------------------------------------------------------------ bounds
\* child processes that exist at the same time (spawned, close not yet seen)
MaxProcs == 2
\* timeouts that are pending at the same time
MaxTimers == 2
\* saturation of the observer's count of consecutive failures
FailCap == 7
\* length, in tokens, of one chunk of child output
MaxChunk == 3
\* length, in tokens, of a line handed to the parser
MaxLine == 3
\* documents in the SystemLog collection
MaxStore == 3
\* distinct timestamps of the documents
MaxTime == 2
\* largest limit passed to getRecentLogs
MaxLimit == 2
\* documents in the EmailCode collection
MaxCodes == 2
\* distinct values crypto.randomInt draws for a code
MaxCodeValue == 2
\* clients (browsers, each with its own session cookie)
MaxClients == 2
\* distinct client IP addresses
MaxIps == 2

ProcIds == 1..MaxProcs
TimerIds == 1..MaxTimers
CodeIds == 1..MaxCodes
CodeValues == 1..MaxCodeValue
Clients == 1..MaxClients
Ips == 1..MaxIps

\* ------------------------------------------------------- program constants
maxReconnectAttempts == 5
BackoffBase == 1000
BackoffCap == 30000

\* ------------------------------------------------------------------- state
VARIABLES
  isEnabled,          \* PM2LogService.isEnabled
  isStreaming,        \* PM2LogService.isStreaming
  reconnectAttempts,  \* PM2LogService.reconnectAttempts
  logProcess,         \* PM2LogService.logProcess: 0 (null) or a process id
  reconnectInterval,  \* PM2LogService.reconnectInterval: 0 (null) or a timer id
  procs,              \* child processes: "none" | "live" | "killed" | "errored"
  timers,             \* timeouts: 1 while pending, 0 otherwise (the delay is in sched)
  lastOp,             \* observer: the operation or event of the last step
  spawned,            \* observer: spawn() of the last step: "none" | "ok" | "threw"
  sched,              \* observer: delay passed to setTimeout in the last step, 0 if none
  gaveUp,             \* observer: the last step took the "max attempts" branch
  failed,             \* observer: the last step handled a failed attachment
  failures,           \* observer: failure signals handled since the last successful spawn
  envWebhookUrl,      \* process.env.DISCORD_WEBHOOK_URL is set
  webhookUrl,         \* DiscordWebhookService.webhookUrl is set
  records,            \* observer: levels of the records the last step ran through the pipeline
  effects,            \* observer: external effects of the last step, in order
  inFlight,           \* records of the last step whose save() promise has not settled
  inputLine,          \* the text handed to processLogLine, as tokens
  inputLevel,         \* the defaultLevel handed to processLogLine
  logEntry,           \* observer: the PM2LogEntry parseLogLine returned
  store,              \* the SystemLog collection: documents in insertion order
  recent,             \* observer: the last getRecentLogs call and what it returned
  pm2LoggingEnabled,  \* config.logging.pm2LoggingEnabled in the database: "unset" | "true" | "false"
  pm2Enabled,         \* observer: the setting initializePM2Logging acted on, "unread" before
  emailCodes,         \* the EmailCode collection of the admin's email, in insertion order
  calls,              \* POST /login requests in flight: where each client's request stands
  accepted,           \* observer: per EmailCode document, the verifyCode calls that returned true
  adminExists,        \* the AdminUser document exists
  loggedInIps,        \* AdminUser.loggedInIps
  sessions,           \* clients whose session holds adminId and isAuthenticated
  response            \* observer: the last request and the response it got

parseVars == <<inputLine, inputLevel, logEntry>>
storeVars == <<store, recent>>
configVars == <<pm2LoggingEnabled, pm2Enabled>>
loginVars == <<emailCodes, calls, accepted>>
authVars == <<adminExists, loggedInIps, sessions, response>>

vars == <<isEnabled, isStreaming, reconnectAttempts, logProcess,
          reconnectInterval, procs, timers, lastOp, spawned, sched, gaveUp,
          failed, failures, envWebhookUrl, webhookUrl, records, effects,
          inFlight, parseVars, storeVars, configVars, loginVars, authVars>>

\* The service object as a record, so that methods compose as in the code.
This ==
  [isEnabled |-> isEnabled, isStreaming |-> isStreaming,
   reconnectAttempts |-> reconnectAttempts, logProcess |-> logProcess,
   reconnectInterval |-> reconnectInterval, procs |-> procs,
   timers |-> timers, spawned |-> "none", sched |-> 0, gaveUp |-> FALSE]

Becomes(s) ==
  /\ isEnabled' = s.isEnabled
  /\ isStreaming' = s.isStreaming
  /\ reconnectAttempts' = s.reconnectAttempts
  /\ logProcess' = s.logProcess
  /\ reconnectInterval' = s.reconnectInterval
  /\ procs' = s.procs
  /\ timers' = s.timers
  /\ spawned' = s.spawned
  /\ sched' = s.sched
  /\ gaveUp' = s.gaveUp

\* ----------------------------------------------------------------- helpers
RECURSIVE Pow2(_)
Pow2(n) == IF n = 0 THEN 1 ELSE 2 * Pow2(n - 1)

Min(a, b) == IF a <= b THEN a ELSE b

\* variant: the backoff without its 30 s cap
Delay_uncapped(attempts) == BackoffBase * Pow2(attempts)

\* Math.min(1000 * Math.pow(2, attempts), 30000)
Delay(attempts) == Min(BackoffBase * Pow2(attempts), BackoffCap)

FreeProcs(s) == {p \in ProcIds : s.procs[p] = "none"}
FreeTimers(s) == {t \in TimerIds : s.timers[t] = 0}
\* the slot a new child or timeout takes; 0 when the model has no room left
NewProc(s) ==
  IF FreeProcs(s) = {} THEN 0
  ELSE CHOOSE p \in FreeProcs(s) : \A q \in FreeProcs(s) : p <= q
NewTimer(s) ==
  IF FreeTimers(s) = {} THEN 0
  ELSE CHOOSE t \in FreeTimers(s) : \A u \in FreeTimers(s) : t <= u
Put(f, k, v) == IF k \in DOMAIN f THEN [f EXCEPT ![k] = v] ELSE f

\* ----------------------------------------------------------------- methods
\* variant: the ceiling test written with > instead of >=
scheduleReconnect_offByOne(s) ==
  IF s.reconnectAttempts > maxReconnectAttempts
  THEN [s EXCEPT !.isStreaming = FALSE, !.gaveUp = TRUE]
  ELSE LET n == s.reconnectAttempts + 1
           t == NewTimer(s)
       IN [s EXCEPT !.reconnectAttempts = n,
                    !.timers = Put(@, t, 1),
                    !.reconnectInterval = t,
                    !.sched = Delay(n)]

\* variant: giving up without marking the service as no longer streaming
scheduleReconnect_staysStreaming(s) ==
  IF s.reconnectAttempts >= maxReconnectAttempts
  THEN [s EXCEPT !.gaveUp = TRUE]
  ELSE LET n == s.reconnectAttempts + 1
           t == NewTimer(s)
       IN [s EXCEPT !.reconnectAttempts = n,
                    !.timers = Put(@, t, 1),
                    !.reconnectInterval = t,
                    !.sched = Delay(n)]

\* variant: giving up also clears the attempt counter
scheduleReconnect_clearsCounter(s) ==
  IF s.reconnectAttempts >= maxReconnectAttempts
  THEN [s EXCEPT !.isStreaming = FALSE, !.gaveUp = TRUE,
                 !.reconnectAttempts = 0]
  ELSE LET n == s.reconnectAttempts + 1
           t == NewTimer(s)
       IN [s EXCEPT !.reconnectAttempts = n,
                    !.timers = Put(@, t, 1),
                    !.reconnectInterval = t,
                    !.sched = Delay(n)]

\* scheduleReconnect()
scheduleReconnect(s) ==
  IF s.reconnectAttempts >= maxReconnectAttempts
  THEN [s EXCEPT !.isStreaming = FALSE, !.gaveUp = TRUE]
  ELSE LET n == s.reconnectAttempts + 1
           t == NewTimer(s)
       IN [s EXCEPT !.reconnectAttempts = n,
                    !.timers = Put(@, t, 1),
                    !.reconnectInterval = t,
                    !.sched = Delay(n)]

\* variant: a successful spawn that forgets to reset the attempt counter
startLogProcess_noReset(s, spawnOk) ==
  IF spawnOk
  THEN LET p == NewProc(s)
       IN [s EXCEPT !.procs = Put(@, p, "live"),
                    !.logProcess = p,
                    !.spawned = "ok"]
  ELSE LET f == [s EXCEPT !.spawned = "threw"]
       IN IF f.isStreaming THEN scheduleReconnect(f) ELSE f

\* startLogProcess(); spawnOk is whether spawn() returns a child or throws
startLogProcess(s, spawnOk) ==
  IF spawnOk
  THEN LET p == NewProc(s)
       IN [s EXCEPT !.procs = Put(@, p, "live"),
                    !.logProcess = p,
                    !.reconnectAttempts = 0,
                    !.spawned = "ok"]
  ELSE LET f == [s EXCEPT !.spawned = "threw"]
       IN IF f.isStreaming THEN scheduleReconnect(f) ELSE f

\* variant: start without the "already active" early return
startStreaming_noActiveCheck(s, spawnOk) ==
  IF ~s.isEnabled THEN s
  ELSE startLogProcess([s EXCEPT !.isStreaming = TRUE], spawnOk)

\* startStreaming()
startStreaming(s, spawnOk) ==
  IF ~s.isEnabled THEN s
  ELSE IF s.isStreaming THEN s
  ELSE startLogProcess([s EXCEPT !.isStreaming = TRUE], spawnOk)

\* stopStreaming()
stopStreaming(s) ==
  LET a == [s EXCEPT !.isStreaming = FALSE]
      b == IF a.logProcess # 0
           THEN [a EXCEPT !.procs[a.logProcess] =
                             IF @ = "live" THEN "killed" ELSE @,
                          !.logProcess = 0]
           ELSE a
      c == IF b.reconnectInterval # 0
           THEN [b EXCEPT !.timers[b.reconnectInterval] = 0,
                          !.reconnectInterval = 0]
           ELSE b
  IN c

\* variant: enable that also marks the service as streaming
enable_andStream(s) == [s EXCEPT !.isEnabled = TRUE, !.isStreaming = TRUE]

\* enable()
enable(s) == [s EXCEPT !.isEnabled = TRUE]

\* variant: disable that leaves a running stream alone
disable_keepsStreaming(s) == [s EXCEPT !.isEnabled = FALSE]

\* disable()
disable(s) ==
  LET a == [s EXCEPT !.isEnabled = FALSE]
  IN IF a.isStreaming THEN stopStreaming(a) ELSE a

\* the 'close' listener of child p
onClose(s, p) ==
  LET a == [s EXCEPT !.procs[p] = "none", !.logProcess = 0]
  IN IF a.isStreaming THEN scheduleReconnect(a) ELSE a

\* the 'error' listener of child p
onError(s, p) ==
  LET a == [s EXCEPT !.procs[p] = "errored", !.logProcess = 0]
  IN IF a.isStreaming THEN scheduleReconnect(a) ELSE a

\* the setTimeout callback of scheduleReconnect, for timer t
onTimer(s, t, spawnOk) ==
  LET a == [s EXCEPT !.timers[t] = 0]
  IN IF a.isStreaming THEN startLogProcess(a, spawnOk) ELSE a

\* getStatus()
getStatus ==
  [isEnabled |-> isEnabled, isStreaming |-> isStreaming,
   reconnectAttempts |-> reconnectAttempts]

\* ---------------------------------------------------------- line parsing
\* A line is a sequence of tokens. "TS:" stands for a prefix of the form
\* "YYYY-MM-DD HH:MM:SS:", "[...]" for a bracketed word, "\n" for the line
\* terminator, " " for blank space, the rest for words.
Levels == {"info", "warning", "error", "critical"}
IsSpace(tok) == tok \in {" ", "\n"}

\* variant: the switch without its debug -> info case
TokenLevel_keepsDebug(tok) ==
  CASE tok \in {"[warn]", "[WARN]", "[warning]", "[WARNING]"} -> "warning"
    [] tok \in {"[error]", "[ERROR]"} -> "error"
    [] tok \in {"[critical]", "[CRITICAL]"} -> "critical"
    [] tok \in {"[info]", "[INFO]"} -> "info"
    [] tok \in {"[debug]", "[DEBUG]"} -> "debug"
    [] OTHER -> "none"

\* /^\[(info|warn|warning|error|critical|debug)\]/i and the switch after it
TokenLevel(tok) ==
  CASE tok \in {"[warn]", "[WARN]", "[warning]", "[WARNING]"} -> "warning"
    [] tok \in {"[error]", "[ERROR]"} -> "error"
    [] tok \in {"[critical]", "[CRITICAL]"} -> "critical"
    [] tok \in {"[info]", "[INFO]", "[debug]", "[DEBUG]"} -> "info"
    [] OTHER -> "none"

\* the words matched by the three content patterns (substring, /i)
HasErrorWord(tok) ==
  tok \in {"error", "exception", "fail", "[error]", "[ERROR]"}
HasWarnWord(tok) ==
  tok \in {"warn", "warning", "[warn]", "[WARN]", "[warning]", "[WARNING]"}
HasCriticalWord(tok) ==
  tok \in {"critical", "fatal", "[critical]", "[CRITICAL]"}
HasNewline(seq) == \E i \in 1..Len(seq) : seq[i] = "\n"

RECURSIVE TrimStart(_)
TrimStart(seq) ==
  IF seq # <<>> /\ IsSpace(Head(seq)) THEN TrimStart(Tail(seq)) ELSE seq
RECURSIVE TrimEnd(_)
TrimEnd(seq) ==
  IF seq # <<>> /\ IsSpace(seq[Len(seq)])
  THEN TrimEnd(SubSeq(seq, 1, Len(seq) - 1)) ELSE seq
\* String.prototype.trim
Trim(seq) == TrimEnd(TrimStart(seq))

\* line.match(/^(\d{4}-\d{2}-\d{2} \d{2}:\d{2}:\d{2}):\s*(.+)$/): the text
\* captured by (.+), or <<>> when the pattern does not match
TimestampMatch(line) ==
  IF line = <<>> \/ Head(line) # "TS:" THEN <<>>
  ELSE LET rest == Tail(line)
           body == TrimStart(rest)
       IN IF rest = <<>> THEN <<>>
          ELSE IF body = <<>>
               THEN IF rest[Len(rest)] = "\n" THEN <<>>
                    ELSE <<rest[Len(rest)]>>
          ELSE IF HasNewline(body) THEN <<>>
          ELSE body

\* the keyword patterns, tried in the order of the code
InferLevel(content) ==
  IF \E i \in 1..Len(content) : HasErrorWord(content[i]) THEN "error"
  ELSE IF \E i \in 1..Len(content) : HasWarnWord(content[i]) THEN "warning"
  ELSE IF \E i \in 1..Len(content) : HasCriticalWord(content[i])
       THEN "critical"
  ELSE "info"

\* parseLogLine(line, defaultLevel)
parseLogLine(line, defaultLevel) ==
  LET tm == TimestampMatch(line)
      timestamp == IF tm # <<>> THEN "TS" ELSE "now"
      content1 == IF tm # <<>> THEN tm ELSE line
      explicit == IF content1 = <<>> THEN "none"
                  ELSE TokenLevel(Head(content1))
      level2 == IF explicit # "none" THEN explicit ELSE defaultLevel
      content2 == IF explicit # "none" THEN Trim(Tail(content1))
                  ELSE content1
      level3 == IF level2 = "info" THEN InferLevel(content2) ELSE level2
  IN [timestamp |-> timestamp, level |-> level3, message |-> content2,
      source |-> "modl-panel", category |-> "pm2",
      metadata |-> [pm2Instance |-> "modl-panel", originalLine |-> line]]

\* data.toString().split('\n')
RECURSIVE Split(_)
Split(chunk) ==
  IF ~HasNewline(chunk) THEN <<chunk>>
  ELSE LET i == CHOOSE k \in 1..Len(chunk) :
                  chunk[k] = "\n" /\ \A j \in 1..(k - 1) : chunk[j] # "\n"
       IN <<SubSeq(chunk, 1, i - 1)>>
            \o Split(SubSeq(chunk, i + 1, Len(chunk)))

\* .filter(line => line.trim())
NonBlank(lines) == SelectSeq(lines, LAMBDA l : Trim(l) # <<>>)

\* ------------------------------------------------------- record pipeline
Effect(kind, n, level) == [eff |-> kind, rec |-> n, level |-> level]

\* DiscordWebhookService.isConfigured()
isConfigured(url) == url

\* sendDiscordNotificationIfNeeded(logEntry), for the n-th record of a step
sendDiscordNotificationIfNeeded(level, n, url) ==
  IF level # "error" /\ level # "critical" THEN <<>>
  ELSE IF ~isConfigured(url) THEN <<>>
  ELSE <<Effect("notify", n, level)>>

\* variant: a store write that logs its failure and throws it on
saveLogToDatabase_rethrows(level, n, storeFails) ==
  IF storeFails
  THEN <<Effect("saveFailed", n, level), Effect("throw", n, level)>>
  ELSE <<Effect("save", n, level)>>

\* saveLogToDatabase(logEntry): an async function whose whole body is in a
\* try block, so a failing write is logged there and nothing is thrown
saveLogToDatabase(level, n, storeFails) ==
  IF storeFails THEN <<Effect("saveFailed", n, level)>>
  ELSE <<Effect("save", n, level)>>

\* an exception ends the statements of a try block
Threw(effs) == effs # <<>> /\ effs[Len(effs)].eff = "throw"

\* this.emit('newLog', logEntry): the listeners run inside the call, and
\* what one of them throws is thrown by emit
emit(level, n, subscriberThrows) ==
  <<Effect("emit", n, level)>> \o
  ( IF subscriberThrows THEN <<Effect("throw", n, level)>> ELSE <<>> )

\* the statements of the try block shared by processLogLine and
\* testLogEntry: save, emit, notify
tryBlock(level, n, url, subscriberThrows, storeFails) ==
  LET saved == saveLogToDatabase(level, n, storeFails)
      emitted == IF Threw(saved) THEN saved
                 ELSE saved \o emit(level, n, subscriberThrows)
  IN IF Threw(emitted) THEN emitted
     ELSE emitted \o sendDiscordNotificationIfNeeded(level, n, url)

\* try { ... } catch (error) { console.error(...) }
runPipeline(level, n, url, subscriberThrows, storeFails) ==
  LET effs == tryBlock(level, n, url, subscriberThrows, storeFails)
  IN IF Threw(effs)
     THEN SubSeq(effs, 1, Len(effs) - 1) \o <<Effect("caught", n, level)>>
     ELSE effs

\* variant: the lines of a chunk handled last first
RECURSIVE processLines_lastFirst(_, _, _, _, _, _)
processLines_lastFirst(lines, defaultLevel, n, url, throwAt, storeFails) ==
  IF lines = <<>> THEN <<>>
  ELSE LET line == Head(lines)
           rest == processLines_lastFirst(Tail(lines), defaultLevel, n + 1,
                                          url, throwAt, storeFails)
       IN IF Trim(line) = <<>> THEN rest
          ELSE rest \o runPipeline(parseLogLine(line, defaultLevel).level,
                                   n, url, throwAt = n, storeFails)

\* processLogLine applied to each line of a step; throwAt is the index of
\* the record on which a subscriber throws, 0 for none; storeFails is
\* whether the store rejects the writes of this step
RECURSIVE processLines(_, _, _, _, _, _)
processLines(lines, defaultLevel, n, url, throwAt, storeFails) ==
  IF lines = <<>> THEN <<>>
  ELSE LET line == Head(lines)
           rest == processLines(Tail(lines), defaultLevel, n + 1, url,
                                throwAt, storeFails)
       IN IF Trim(line) = <<>> THEN rest
          ELSE runPipeline(parseLogLine(line, defaultLevel).level, n, url,
                           throwAt = n, storeFails) \o rest

\* the records whose save() was called in a step: the call returns a
\* promise that settles, fulfilled or caught, in a later turn of the loop
Unsettled(effs) ==
  {effs[i].rec : i \in {j \in 1..Len(effs) :
                          effs[j].eff \in {"save", "saveFailed"}}}

\* the levels of the records processLines produces, in order
RECURSIVE parsedLevels(_, _)
parsedLevels(lines, defaultLevel) ==
  IF lines = <<>> THEN <<>>
  ELSE IF Trim(Head(lines)) = <<>>
       THEN <<"blank">> \o parsedLevels(Tail(lines), defaultLevel)
       ELSE <<parseLogLine(Head(lines), defaultLevel).level>>
              \o parsedLevels(Tail(lines), defaultLevel)

\* DiscordWebhookService.updateConfig(webhookSettings)
updateConfig(enabled, hasUrl) ==
  IF enabled /\ hasUrl THEN TRUE ELSE envWebhookUrl

\* ------------------------------------------------------------ bound guards
\* the step neither spawns nor schedules more than the model has room for
Fits(s) ==
  /\ (s.spawned = "ok" => s.logProcess # 0)
  /\ (s.sched # 0 => s.reconnectInterval # 0)

Bump(n) == Min(n + 1, FailCap)

\* observer: failures after a step that produced s, given whether the step
\* handled a failure signal while streaming
Failed(s, signal) == (signal \/ s.spawned = "threw")
Counted(s, signal) ==
  IF s.spawned = "ok" THEN 0
  ELSE IF Failed(s, signal) THEN Bump(failures)
  ELSE failures
Observe(op, s, signal) ==
  /\ lastOp' = op
  /\ failed' = Failed(s, signal)
  /\ failures' = Counted(s, signal)
  /\ records' = <<>>
  /\ effects' = <<>>
  /\ UNCHANGED <<envWebhookUrl, webhookUrl, inFlight>>
  /\ UNCHANGED <<parseVars, storeVars, configVars, loginVars, authVars>>

\* ---------------------------------------------------------------- actions
\* no entry parsed yet, no query made yet
NoEntry ==
  [timestamp |-> "none", level |-> "none", message |-> <<>>,
   source |-> "none", category |-> "none",
   metadata |-> [pm2Instance |-> "none", originalLine |-> <<>>]]
NoQuery == [limit |-> 0, rejected |-> FALSE, logs |-> <<>>]

\* the service and the webhook client after construction
Constructed ==
  /\ isEnabled \in BOOLEAN
  /\ isStreaming = FALSE
  /\ reconnectAttempts = 0
  /\ logProcess = 0
  /\ reconnectInterval = 0
  /\ procs = [p \in ProcIds |-> "none"]
  /\ timers = [t \in TimerIds |-> 0]
  /\ lastOp = "init"
  /\ spawned = "none"
  /\ sched = 0
  /\ gaveUp = FALSE
  /\ failed = FALSE
  /\ failures = 0
  /\ envWebhookUrl \in BOOLEAN
  /\ webhookUrl = envWebhookUrl
  /\ records = <<>>
  /\ effects = <<>>
  /\ inFlight = {}

\* no request made yet, no login under way, no code issued, the admin
\* registered and never logged in
NoResponse == [client |-> 0, ip |-> 0, status |-> 0, error |-> "none"]
Idle == [pc |-> "idle", doc |-> 0, ip |-> 0]
NoLogins ==
  /\ emailCodes = <<>>
  /\ calls = [c \in Clients |-> Idle]
  /\ accepted = [i \in CodeIds |-> 0]
  /\ adminExists = TRUE
  /\ loggedInIps = {}
  /\ sessions = {}
  /\ response = NoResponse

NoLine == inputLine = <<>> /\ inputLevel = "info" /\ logEntry = NoEntry
EmptyStore == store = <<>> /\ recent = NoQuery
ConfigUnread == pm2Enabled = "unread"

Init ==
  /\ Constructed
  /\ NoLogins
  /\ NoLine
  /\ EmptyStore
  /\ pm2LoggingEnabled = "unset"
  /\ ConfigUnread

StartStreaming ==
  \E spawnOk \in BOOLEAN :
    LET s == startStreaming(This, spawnOk)
    IN /\ Fits(s)
       /\ Becomes(s)
       /\ Observe("start", s, FALSE)

StopStreaming ==
  /\ Becomes(stopStreaming(This))
  /\ Observe("stop", stopStreaming(This), FALSE)

Enable ==
  /\ Becomes(enable(This))
  /\ Observe("enable", enable(This), FALSE)

Disable ==
  /\ Becomes(disable(This))
  /\ Observe("disable", disable(This), FALSE)

ProcessClose ==
  \E p \in ProcIds :
    /\ procs[p] # "none"
    /\ Fits(onClose(This, p))
    /\ Becomes(onClose(This, p))
    /\ Observe("close", onClose(This, p), isStreaming)

ProcessError ==
  \E p \in ProcIds :
    /\ procs[p] \in {"live", "killed"}
    /\ Fits(onError(This, p))
    /\ Becomes(onError(This, p))
    /\ Observe("error", onError(This, p), isStreaming)

TimerFire ==
  \E t \in TimerIds, spawnOk \in BOOLEAN :
    /\ timers[t] # 0
    /\ Fits(onTimer(This, t, spawnOk))
    /\ Becomes(onTimer(This, t, spawnOk))
    /\ Observe("timer", onTimer(This, t, spawnOk), FALSE)

\* tokens of the chunks the children write
ChunkTokens == {"\n", "[ERROR]", "ok"}
RECURSIVE SeqsUpTo(_, _)
SeqsUpTo(S, n) ==
  IF n = 0 THEN {<<>>}
  ELSE LET shorter == SeqsUpTo(S, n - 1)
       IN shorter \cup {Append(q, x) : q \in shorter, x \in S}
Chunks == SeqsUpTo(ChunkTokens, MaxChunk) \ {<<>>}

Quiet(op) ==
  /\ Becomes(This)
  /\ lastOp' = op
  /\ failed' = FALSE
  /\ UNCHANGED failures

\* children whose output listeners can still run
Attached == {p \in ProcIds : procs[p] \in {"live", "killed"}}

\* logProcess.stdout 'data' listener of a child
StdoutData ==
  \E chunk \in Chunks :
    LET lines == NonBlank(Split(chunk))
    IN \E throwAt \in 0..Len(lines), storeFails \in BOOLEAN :
         /\ Attached # {}
         /\ Quiet("stdout")
         /\ records' = parsedLevels(lines, "info")
         /\ effects' = processLines(lines, "info", 1, webhookUrl, throwAt,
                                   storeFails)
         /\ inFlight' = Unsettled(effects')
         /\ UNCHANGED <<envWebhookUrl, webhookUrl>>
         /\ UNCHANGED <<parseVars, storeVars, configVars, loginVars, authVars>>

\* logProcess.stderr 'data' listener of a child
StderrData ==
  \E chunk \in Chunks, throwAt \in 0..1, storeFails \in BOOLEAN :
    /\ Attached # {}
    /\ Quiet("stderr")
    /\ records' = parsedLevels(<<chunk>>, "error")
    /\ effects' = processLines(<<chunk>>, "error", 1, webhookUrl, throwAt,
                              storeFails)
    /\ inFlight' = Unsettled(effects')
    /\ UNCHANGED <<envWebhookUrl, webhookUrl>>
    /\ UNCHANGED <<parseVars, storeVars, configVars, loginVars, authVars>>

\* testLogEntry(logEntry)
TestLogEntry ==
  \E level \in Levels, subscriberThrows \in BOOLEAN, storeFails \in BOOLEAN :
    /\ Quiet("test")
    /\ records' = <<level>>
    /\ effects' = runPipeline(level, 1, webhookUrl, subscriberThrows,
                             storeFails)
    /\ inFlight' = Unsettled(effects')
    /\ UNCHANGED <<envWebhookUrl, webhookUrl>>
    /\ UNCHANGED <<parseVars, storeVars, configVars, loginVars, authVars>>

\* WebhookConfigService -> DiscordWebhookService.updateConfig
UpdateConfig ==
  \E enabled \in BOOLEAN, hasUrl \in BOOLEAN :
    /\ Quiet("updateConfig")
    /\ webhookUrl' = updateConfig(enabled, hasUrl)
    /\ records' = <<>>
    /\ effects' = <<>>
    /\ UNCHANGED <<envWebhookUrl, inFlight>>
    /\ UNCHANGED <<parseVars, storeVars, configVars, loginVars, authVars>>

\* the promise of one saveLogToDatabase call settles: the awaited save has
\* completed or its failure has been logged
SaveSettles ==
  \E n \in inFlight :
    /\ Quiet("settled")
    /\ inFlight' = inFlight \ {n}
    /\ UNCHANGED <<records, effects, envWebhookUrl, webhookUrl>>
    /\ UNCHANGED <<parseVars, storeVars, configVars, loginVars, authVars>>

Next ==
  \/ StartStreaming
  \/ StopStreaming
  \/ Enable
  \/ Disable
  \/ ProcessClose
  \/ ProcessError
  \/ TimerFire

Spec == Init /\ [][Next]_vars

\* the record pipeline: chunks from attached children, test entries and
\* configuration updates
NextPipeline ==
  \/ StartStreaming
  \/ StdoutData
  \/ StderrData
  \/ TestLogEntry
  \/ UpdateConfig
  \/ SaveSettles

SpecPipeline == Init /\ [][NextPipeline]_vars

TypeOK ==
  /\ isEnabled \in BOOLEAN
  /\ isStreaming \in BOOLEAN
  /\ reconnectAttempts \in 0..maxReconnectAttempts
  /\ logProcess \in {0} \cup ProcIds
  /\ reconnectInterval \in {0} \cup TimerIds
  /\ procs \in [ProcIds -> {"none", "live", "killed", "errored"}]
  /\ timers \in [TimerIds -> {0, 1}]
  /\ failures \in 0..FailCap
  /\ failed \in BOOLEAN
  /\ envWebhookUrl \in BOOLEAN
  /\ webhookUrl \in BOOLEAN
  /\ (logProcess # 0 => procs[logProcess] = "live")

\* ------------------------------------------------------------ the parser
\* tokens of the lines handed to the parser
LineTokens ==
  {"TS:", " ", "\n", "[info]", "[debug]", "[warn]", "[ERROR]", "[critical]",
   "error", "warning", "critical", "ok"}
Lines == SeqsUpTo(LineTokens, MaxLine)

\* a step that leaves the service, the webhook client and the pipeline alone
Apart(op) ==
  /\ Quiet(op)
  /\ records' = <<>>
  /\ effects' = <<>>
  /\ UNCHANGED <<envWebhookUrl, webhookUrl, inFlight>>

\* the service with some text about to be handed to processLogLine
InitParse ==
  /\ Constructed
  /\ NoLogins
  /\ isEnabled
  /\ ~envWebhookUrl
  /\ inputLine \in Lines
  /\ inputLevel \in Levels
  /\ logEntry = NoEntry
  /\ EmptyStore
  /\ pm2LoggingEnabled = "unset"
  /\ ConfigUnread

\* processLogLine(line, defaultLevel) up to the parse: blank text returns
\* at once, anything else is parsed
ProcessLogLine ==
  /\ Apart(IF Trim(inputLine) = <<>> THEN "blank" ELSE "parse")
  /\ logEntry' = IF Trim(inputLine) = <<>> THEN NoEntry
                 ELSE parseLogLine(inputLine, inputLevel)
  /\ UNCHANGED <<inputLine, inputLevel, storeVars, configVars, loginVars, authVars>>

NextParse == ProcessLogLine

SpecParse == InitParse /\ [][NextParse]_vars

\* ------------------------------------------------------------- the store
\* documents of the SystemLog collection: every component of the platform
\* writes there under its own source
Times == 1..MaxTime
Docs == [source : {"modl-panel", "other"}, timestamp : Times]
Limits == 1..MaxLimit

\* variant: the query without its source filter
Matching_unfiltered(st) == {i \in 1..Len(st) : TRUE}

\* .find({ source: 'modl-panel' }): positions of the matching documents
Matching(st) == {i \in 1..Len(st) : st[i].source = "modl-panel"}

\* .sort({ timestamp: -1 }).limit(k): the first k positions of an ordering
\* of the matching documents by decreasing timestamp; documents with equal
\* timestamps come in any order
Newest(st, among, k) ==
  {idx \in [1..k -> among] :
     /\ \A i, j \in 1..k : i < j =>
          /\ idx[i] # idx[j]
          /\ st[idx[i]].timestamp >= st[idx[j]].timestamp
     /\ \A i \in 1..k, m \in among :
          (\A j \in 1..k : idx[j] # m) =>
            st[idx[i]].timestamp >= st[m].timestamp}

\* getRecentLogs(limit): what the call can return; rejects is whether the
\* query fails
getRecentLogs(st, limit, rejects) ==
  IF rejects THEN {<<>>}
  ELSE LET among == Matching(st)
           k == Min(limit, Cardinality(among))
       IN {[i \in 1..k |-> st[idx[i]]] : idx \in Newest(st, among, k)}

\* the collection as the process finds it
InitStore ==
  /\ Constructed
  /\ NoLogins
  /\ isEnabled
  /\ ~envWebhookUrl
  /\ NoLine
  /\ store \in SeqsUpTo(Docs, MaxStore)
  /\ recent = NoQuery
  /\ pm2LoggingEnabled = "unset"
  /\ ConfigUnread

\* await systemLog.save() of saveLogToDatabase completes: the document of a
\* record is in the collection
SystemLogSave ==
  \E t \in Times :
    /\ Len(store) < MaxStore
    /\ Apart("save")
    /\ store' = Append(store, [source |-> "modl-panel", timestamp |-> t])
    /\ UNCHANGED <<recent, parseVars, configVars, loginVars, authVars>>

\* GET pm2-status -> getRecentLogs(limit)
GetRecentLogs ==
  \E limit \in Limits, rejects \in BOOLEAN :
    \E logs \in getRecentLogs(store, limit, rejects) :
      /\ Apart("getRecentLogs")
      /\ recent' = [limit |-> limit, rejected |-> rejects, logs |-> logs]
      /\ UNCHANGED <<store, parseVars, configVars, loginVars, authVars>>

NextStore ==
  \/ SystemLogSave
  \/ GetRecentLogs

SpecStore == InitStore /\ [][NextStore]_vars

\* ----------------------------------------------------------- the startup
ConfigValues == {"unset", "true", "false"}

\* config.logging?.pm2LoggingEnabled ?? (process.env.PM2_LOGGING_ENABLED
\* !== 'false'), and the environment alone when reading the configuration
\* fails; envEnabled is process.env.PM2_LOGGING_ENABLED !== 'false'
pm2EnabledSetting(config, readFails, envEnabled) ==
  IF readFails THEN envEnabled
  ELSE IF config = "unset" THEN envEnabled
  ELSE config = "true"

\* initializePM2Logging(): start when the setting is true, nothing otherwise
initializePM2Logging(s, setting, spawnOk) ==
  IF setting THEN startStreaming(s, spawnOk) ELSE s

\* the service after construction, with the configuration document as the
\* database holds it
InitStartup ==
  /\ Constructed
  /\ NoLogins
  /\ NoLine
  /\ EmptyStore
  /\ pm2LoggingEnabled \in ConfigValues
  /\ ConfigUnread

\* server.listen callback -> initializePM2Logging(), the first step after
\* construction: isEnabled still holds what the field initialiser read
\* from process.env.PM2_LOGGING_ENABLED
InitializePM2Logging ==
  \E readFails \in BOOLEAN, spawnOk \in BOOLEAN :
    LET setting == pm2EnabledSetting(pm2LoggingEnabled, readFails, isEnabled)
        s == initializePM2Logging(This, setting, spawnOk)
    IN /\ lastOp = "init"
       /\ Fits(s)
       /\ Becomes(s)
       /\ lastOp' = "startup"
       /\ failed' = Failed(s, FALSE)
       /\ failures' = Counted(s, FALSE)
       /\ records' = <<>>
       /\ effects' = <<>>
       /\ pm2Enabled' = IF setting THEN "true" ELSE "false"
       /\ UNCHANGED <<envWebhookUrl, webhookUrl, pm2LoggingEnabled, inFlight>>
       /\ UNCHANGED <<parseVars, storeVars, loginVars, authVars>>

\* the startup and what the child and the timers do after it
NextStartup ==
  \/ InitializePM2Logging
  \/ ProcessClose
  \/ ProcessError
  \/ TimerFire

SpecStartup == InitStartup /\ [][NextStartup]_vars

\* ------------------------------------------------- the control routes
\* currentConfig.logging?.pm2LoggingEnabled ?? true
currentPM2Enabled(stored) == IF stored = "unset" THEN TRUE ELSE stored = "true"

\* PUT /config after the document has been written: enable and start, or
\* disable, only when the new value differs from the one read before
putConfig(s, stored, newPM2Enabled, spawnOk) ==
  IF currentPM2Enabled(stored) # newPM2Enabled
  THEN IF newPM2Enabled THEN startStreaming(enable(s), spawnOk)
       ELSE disable(s)
  ELSE s

\* POST /pm2/toggle: enable and start, or disable; the configuration
\* document is not touched
toggle(s, enabled, spawnOk) ==
  IF enabled THEN startStreaming(enable(s), spawnOk) ELSE disable(s)

\* PUT /api/system/config; rejects is whether reading or writing the
\* document fails, which ends the request before the service is touched
PutConfig ==
  \E newPM2Enabled \in BOOLEAN, rejects \in BOOLEAN, spawnOk \in BOOLEAN :
    LET s == IF rejects THEN This
             ELSE putConfig(This, pm2LoggingEnabled, newPM2Enabled, spawnOk)
    IN /\ Fits(s)
       /\ Becomes(s)
       /\ lastOp' = IF rejects THEN "putConfigFailed" ELSE "putConfig"
       /\ failed' = Failed(s, FALSE)
       /\ failures' = Counted(s, FALSE)
       /\ records' = <<>>
       /\ effects' = <<>>
       /\ pm2LoggingEnabled' =
            IF rejects THEN pm2LoggingEnabled
            ELSE IF newPM2Enabled THEN "true" ELSE "false"
       /\ UNCHANGED <<envWebhookUrl, webhookUrl, inFlight, pm2Enabled>>
       /\ UNCHANGED <<parseVars, storeVars, loginVars, authVars>>

\* POST /api/monitoring/pm2/toggle
Toggle ==
  \E enabled \in BOOLEAN, spawnOk \in BOOLEAN :
    LET s == toggle(This, enabled, spawnOk)
    IN /\ Fits(s)
       /\ Becomes(s)
       /\ Observe("toggle", s, FALSE)

\* the startup, the two routes, and what the children and timers do
NextConfig ==
  \/ InitializePM2Logging
  \/ PutConfig
  \/ Toggle
  \/ ProcessClose
  \/ TimerFire

SpecConfig == InitStartup /\ [][NextConfig]_vars

\* ------------------------------------------------------------- the login
\* EmailCodeModel.updateMany({ email, used: false }, { used: true })
invalidate(codes) ==
  [i \in 1..Len(codes) |-> [codes[i] EXCEPT !.used = TRUE]]

\* EmailService.sendVerificationCode: invalidate the unused codes, save the
\* new one, send the mail; outcome names the await that rejects, if any
SendOutcomes == {"sent", "updateFailed", "saveFailed", "mailFailed"}
sendVerificationCode(codes, code, outcome) ==
  IF outcome = "updateFailed" THEN codes
  ELSE IF outcome = "saveFailed" THEN invalidate(codes)
  ELSE Append(invalidate(codes),
              [code |-> code, used |-> FALSE, expired |-> FALSE])

\* the documents EmailCodeModel.findOne({ email, code, used: false,
\* expiresAt: { $gt: new Date() } }) can return
findOne(codes, code) ==
  {i \in 1..Len(codes) :
     codes[i].code = code /\ ~codes[i].used /\ ~codes[i].expired}

\* updateActivity: $addToSet of the client IP when the session has an
\* adminId; an update that rejects or matches no document changes nothing
updateActivity(ips, hasSession, exists, clientIP, rejects) ==
  IF hasSession /\ exists /\ ~rejects THEN ips \cup {clientIP} ELSE ips

\* requireAuth outside development mode: the response it sends, or "next"
requireAuth(hasSession, exists, ips, clientIP, rejects) ==
  IF ~hasSession
  THEN [status |-> 401, error |-> "Authentication required"]
  ELSE IF rejects
  THEN [status |-> 500, error |-> "Authentication check failed"]
  ELSE IF ~exists
  THEN [status |-> 401, error |-> "Invalid session"]
  ELSE IF clientIP \notin ips
  THEN [status |-> 401, error |-> "IP address not authorized"]
  ELSE [status |-> 200, error |-> "next"]

\* a step of the auth routes: the log service and the pipeline stay put
Web(op) ==
  /\ Apart(op)
  /\ UNCHANGED <<parseVars, storeVars, configVars>>

Responds(c, ip, status, error) ==
  response' = [client |-> c, ip |-> ip, status |-> status, error |-> error]

\* POST /api/auth/request-code
RequestCode ==
  \E c \in Clients, ip \in Ips, code \in CodeValues, outcome \in SendOutcomes :
    /\ (outcome \in {"sent", "mailFailed"} => Len(emailCodes) < MaxCodes)
    /\ Web("requestCode")
    /\ IF ~adminExists
       THEN /\ Responds(c, ip, 401, "Invalid email address")
            /\ UNCHANGED emailCodes
       ELSE /\ emailCodes' = sendVerificationCode(emailCodes, code, outcome)
            /\ IF outcome = "sent"
               THEN Responds(c, ip, 200, "none")
               ELSE Responds(c, ip, 500, "Failed to send verification code")
    /\ UNCHANGED <<calls, accepted, adminExists, loggedInIps, sessions>>

\* POST /api/auth/login up to the await of findOne in verifyCode: the admin
\* lookup and the query; rejects is whether the query rejects
LoginFind ==
  \E c \in Clients, ip \in Ips, code \in CodeValues, rejects \in BOOLEAN :
    /\ calls[c].pc = "idle"
    /\ Web("loginFind")
    /\ IF ~adminExists
       THEN /\ Responds(c, ip, 401, "Invalid credentials")
            /\ UNCHANGED calls
       ELSE IF rejects \/ findOne(emailCodes, code) = {}
       THEN /\ Responds(c, ip, 401, "Invalid or expired code")
            /\ UNCHANGED calls
       ELSE /\ \E i \in findOne(emailCodes, code) :
                 calls' = [calls EXCEPT ![c] =
                             [pc |-> "found", doc |-> i, ip |-> ip]]
            /\ UNCHANGED response
    /\ UNCHANGED <<emailCodes, accepted, adminExists, loggedInIps, sessions>>

\* POST /api/auth/login from the resumption after findOne: emailCode.used =
\* true, save, return true, then the admin record and the session;
\* codeRejects and adminRejects are whether the two save() calls reject
LoginSave ==
  \E c \in Clients, codeRejects \in BOOLEAN, adminRejects \in BOOLEAN :
    LET i == calls[c].doc
        ip == calls[c].ip
    IN /\ calls[c].pc = "found"
       /\ Web("loginSave")
       /\ calls' = [calls EXCEPT ![c] = Idle]
       /\ IF codeRejects
          THEN /\ Responds(c, ip, 401, "Invalid or expired code")
               /\ UNCHANGED <<emailCodes, accepted, loggedInIps, sessions>>
          ELSE /\ emailCodes' = [emailCodes EXCEPT ![i].used = TRUE]
               /\ accepted' = [accepted EXCEPT ![i] = @ + 1]
               /\ IF adminRejects \/ ~adminExists
                  THEN /\ Responds(c, ip, 500, "Login failed")
                       /\ UNCHANGED <<loggedInIps, sessions>>
                  ELSE /\ Responds(c, ip, 200, "none")
                       /\ loggedInIps' = loggedInIps \cup {ip}
                       /\ sessions' = sessions \cup {c}
       /\ UNCHANGED adminExists

\* time passes expiresAt of the oldest code that has not expired
Expire ==
  \E i \in 1..Len(emailCodes) :
    /\ ~emailCodes[i].expired
    /\ \A j \in 1..(i - 1) : emailCodes[j].expired
    /\ Web("expire")
    /\ emailCodes' = [emailCodes EXCEPT ![i].expired = TRUE]
    /\ UNCHANGED <<calls, accepted>>
    /\ UNCHANGED authVars

\* the AdminUser document is deleted in the database
AdminRemoved ==
  /\ adminExists
  /\ Web("adminRemoved")
  /\ adminExists' = FALSE
  /\ UNCHANGED <<loggedInIps, sessions, response>>
  /\ UNCHANGED loginVars

\* a request to a route behind requireAuth (GET /api/auth/session or
\* POST /api/auth/logout): app.use(updateActivity) runs first, then the
\* route's requireAuth, then the handler
Routes == {"session", "logout"}
Request ==
  \E c \in Clients, ip \in Ips, route \in Routes,
     updateRejects \in BOOLEAN, findRejects \in BOOLEAN,
     destroyFails \in BOOLEAN :
    LET hasSession == c \in sessions
        ips == updateActivity(loggedInIps, hasSession, adminExists, ip,
                              updateRejects)
        r == requireAuth(hasSession, adminExists, ips, ip, findRejects)
        passed == r.error = "next"
    IN /\ Web("request")
       /\ loggedInIps' = ips
       /\ IF passed /\ route = "logout" /\ destroyFails
          THEN Responds(c, ip, 500, "Logout failed")
          ELSE Responds(c, ip, r.status, r.error)
       /\ sessions' =
            IF \/ r.error = "Invalid session"
               \/ (passed /\ route = "logout" /\ ~destroyFails)
            THEN sessions \ {c}
            ELSE sessions
       /\ UNCHANGED adminExists
       /\ UNCHANGED loginVars

\* the service as Init has it, enabled, with no webhook configured
InitLogin ==
  /\ Init
  /\ isEnabled
  /\ ~envWebhookUrl

\* the two auth routes and the passing of time
NextLogin ==
  \/ RequestCode
  \/ LoginFind
  \/ LoginSave
  \/ Expire

SpecLogin == InitLogin /\ [][NextLogin]_vars

\* the admin after some logins: sessions held by clients, and the IPs the
\* logins came from
InitAuth ==
  /\ Constructed
  /\ isEnabled
  /\ ~envWebhookUrl
  /\ NoLine
  /\ EmptyStore
  /\ pm2LoggingEnabled = "unset"
  /\ ConfigUnread
  /\ emailCodes = <<>>
  /\ calls = [c \in Clients |-> Idle]
  /\ accepted = [i \in CodeIds |-> 0]
  /\ adminExists = TRUE
  /\ loggedInIps \in SUBSET Ips
  /\ sessions \in SUBSET Clients
  /\ (sessions # {} => loggedInIps # {})
  /\ response = NoResponse

\* requests to the protected routes, and the admin going away
NextAuth ==
  \/ Request
  \/ AdminRemoved

SpecAuth == InitAuth /\ [][NextAuth]_vars

\* ------------------------------------------------------------ properties
LiveProcs == {p \in ProcIds : procs[p] = "live"}
PendingTimers == {t \in TimerIds : timers[t] # 0}
ServiceFields == <<isEnabled, isStreaming, reconnectAttempts, logProcess,
                   reconnectInterval, procs, timers>>

\* C1 (as claimed): after disable() the service is neither enabled nor
\* streaming and no attachment is left live.
C1_DisableTearsDownAll ==
  lastOp = "disable" =>
    /\ ~isEnabled /\ ~isStreaming
    /\ LiveProcs = {}

\* C2: start() while disabled or while already streaming changes nothing:
\* no spawn, and every field of the service keeps its value.
C2_StartNoop ==
  [][(lastOp' = "start" /\ (~isEnabled \/ isStreaming)) =>
       (UNCHANGED ServiceFields /\ spawned' = "none" /\ sched' = 0)]_vars

C2_Witness ==
  lastOp = "start" /\ spawned = "none" /\ isStreaming /\ logProcess # 0

\* C3: right after a successful spawn (from start() or from a reconnect
\* timer) the service is streaming, holds the new child and
\* reconnectAttempts is 0.
C3_SuccessResets ==
  spawned = "ok" =>
    /\ isStreaming
    /\ reconnectAttempts = 0
    /\ logProcess \in LiveProcs

C3_Witness == lastOp = "timer" /\ spawned = "ok" /\ reconnectAttempts = 0

\* C4 (as claimed): after stop() the service is not streaming, no attachment
\* is live and no reconnect timer is pending.
C4_StopTearsDownAll ==
  lastOp = "stop" =>
    /\ ~isStreaming
    /\ LiveProcs = {}
    /\ PendingTimers = {}

\* C5: enable() sets isEnabled and nothing else: no spawn, no timer, and
\* isStreaming, reconnectAttempts and both handles keep their values.
C5_EnableOnlyToggles ==
  [][lastOp' = "enable" =>
       /\ isEnabled'
       /\ UNCHANGED <<isStreaming, reconnectAttempts, logProcess,
                      reconnectInterval, procs, timers>>
       /\ spawned' = "none" /\ sched' = 0]_vars

C5_Witness == lastOp = "enable" /\ isEnabled /\ ~isStreaming /\ LiveProcs = {}

\* C6: the k-th consecutive failure handled while streaming (k = 1..5, no
\* successful spawn in between) increments the counter to k and schedules
\* a retry after 2000, 4000, 8000, 16000, 30000 ms respectively.
BackoffTable == <<2000, 4000, 8000, 16000, 30000>>

C6_BackoffDelays ==
  /\ (failed /\ failures <= 5 =>
        /\ reconnectAttempts = failures
        /\ sched = BackoffTable[failures]
        /\ reconnectInterval \in PendingTimers)
  /\ (sched # 0 => failed /\ failures \in 1..5)

C6_Witness == failed /\ failures = 5 /\ sched = 30000

\* C7 (as claimed): right after the 5th consecutive failure the service is
\* not streaming and that step scheduled no timer.
C7_StopsAtFifthFailure ==
  (failed /\ failures = 5) => (~isStreaming /\ sched = 0)

\* C7 (amended): the service gives up at the 6th consecutive failure, the
\* one that finds reconnectAttempts already at 5: that step sets
\* isStreaming to false and schedules no timer, while each of the first
\* five failures leaves it streaming with a retry scheduled.
C7_StopsAtSixthFailure ==
  failed =>
    IF failures <= maxReconnectAttempts
    THEN isStreaming /\ sched # 0 /\ ~gaveUp
    ELSE ~isStreaming /\ sched = 0 /\ gaveUp
                     /\ reconnectAttempts = maxReconnectAttempts

C7_Witness == failed /\ failures = 6 /\ gaveUp /\ ~isStreaming

\* C8 (as claimed): start() called right after the service gave up leaves it
\* streaming with either a new attachment or a retry scheduled.
C8_StartAfterGiveUpRetries ==
  [][(gaveUp /\ isEnabled /\ lastOp' = "start") =>
       (isStreaming' /\ (spawned' = "ok" \/ sched' # 0))]_vars

\* C9 (as claimed): isStreaming implies a live attachment.
C9_StreamingImpliesLive == isStreaming => LiveProcs # {}

\* C9 (amended): isStreaming implies a live attachment or a pending
\* reconnect timer (the service stays "streaming" during backoff).
C9_StreamingImpliesLiveOrPending ==
  isStreaming => (LiveProcs # {} \/ PendingTimers # {})

C9_Witness == isStreaming /\ LiveProcs = {} /\ PendingTimers # {}

\* the notification attempts the last step made for its n-th record
NotifyCount(n) ==
  Cardinality({i \in 1..Len(effects) :
                 effects[i].eff = "notify" /\ effects[i].rec = n})

\* C10 (as claimed): every record run through the pipeline, from a child's
\* output or from testLogEntry, gets exactly one notification attempt when
\* its level is error or critical and the webhook is configured, and none
\* otherwise.
C10_NotifyIffErrorAndConfigured ==
  \A n \in 1..Len(records) :
    records[n] # "blank" =>
      NotifyCount(n) =
        IF records[n] \in {"error", "critical"} /\ webhookUrl THEN 1 ELSE 0

\* what the last step did for its n-th record
EffectCount(kind, n) ==
  Cardinality({i \in 1..Len(effects) :
                 effects[i].eff = kind /\ effects[i].rec = n})
NotifyExpected(n) ==
  IF records[n] \in {"error", "critical"} /\ webhookUrl THEN 1 ELSE 0
Escaped == \E i \in 1..Len(effects) : effects[i].eff = "throw"

\* C11: a record whose store write fails is still published once and, when
\* the publish itself returns, still gets the notification its level and
\* the webhook configuration call for; nothing is thrown out of
\* processLogLine or testLogEntry.
C11_SaveFailureIsolated ==
  /\ ~Escaped
  /\ \A n \in 1..Len(records) :
       EffectCount("saveFailed", n) > 0 =>
         /\ EffectCount("emit", n) = 1
         /\ (EffectCount("caught", n) = 0 =>
               EffectCount("notify", n) = NotifyExpected(n))

C11_Witness ==
  \E n \in 1..Len(records) :
    /\ EffectCount("saveFailed", n) = 1
    /\ EffectCount("emit", n) = 1
    /\ EffectCount("notify", n) = 1

\* C12 (as claimed): whichever effect of a record fails, the store write or
\* a subscriber during the publish, the record is still published once and
\* still gets the notification its level and the webhook configuration
\* call for, and nothing is thrown to the output listeners.
C12_EffectsIsolated ==
  /\ ~Escaped
  /\ \A n \in 1..Len(records) :
       (EffectCount("saveFailed", n) > 0 \/ EffectCount("caught", n) > 0) =>
         /\ EffectCount("emit", n) = 1
         /\ EffectCount("notify", n) = NotifyExpected(n)

\* C13 (as claimed): a line that starts with a bracketed level token gets
\* the level of that token (warn -> warning, debug -> info), whatever words
\* follow it.
C13_ExplicitTokenWins ==
  (lastOp = "parse" /\ TokenLevel(Head(inputLine)) # "none") =>
    logEntry.level = TokenLevel(Head(inputLine))

\* the precedence of the keyword patterns as specified
KeywordPrecedence(words) ==
  IF \E i \in 1..Len(words) : HasCriticalWord(words[i]) THEN "critical"
  ELSE IF \E i \in 1..Len(words) : HasErrorWord(words[i]) THEN "error"
  ELSE IF \E i \in 1..Len(words) : HasWarnWord(words[i]) THEN "warning"
  ELSE "info"

\* C14 (as claimed): a line without any level token, parsed with the stdout
\* default, gets critical if it holds critical|fatal, else error if it holds
\* error|exception|fail, else warning if it holds warn, else info.
C14_KeywordPrecedence ==
  ( /\ lastOp = "parse"
    /\ inputLevel = "info"
    /\ \A i \in 1..Len(inputLine) : TokenLevel(inputLine[i]) = "none" ) =>
    logEntry.level = KeywordPrecedence(inputLine)

\* C15 (as claimed): the record parsed from a non-blank line has a
\* non-empty message.
C15_MessageNeverEmpty ==
  lastOp = "parse" => logEntry.message # <<>>

\* C16: every record the parser returns has one of the four levels, the
\* fixed source and category, and the text it was given as originalLine.
C16_RecordShape ==
  lastOp = "parse" =>
    /\ logEntry.level \in Levels
    /\ logEntry.source = "modl-panel"
    /\ logEntry.category = "pm2"
    /\ logEntry.metadata.originalLine = inputLine

C16_Witness ==
  /\ lastOp = "parse"
  /\ inputLine = <<"TS:", "[debug]", "ok">>
  /\ inputLevel = "critical"
  /\ logEntry.level = "info"
  /\ logEntry.message = <<"ok">>
  /\ logEntry.metadata.originalLine = inputLine

Occurrences(tok, seq) == Cardinality({i \in 1..Len(seq) : seq[i] = tok})

\* C17 (as claimed): text that starts with a timestamp prefix yields a
\* record whose timestamp is that of the prefix and whose message no longer
\* holds the prefix; prefix, [ERROR] token and a word yield that
\* timestamp, level error and the word alone as message.
C17_TimestampStripped ==
  (lastOp = "parse" /\ Head(inputLine) = "TS:") =>
    /\ logEntry.timestamp = "TS"
    /\ Occurrences("TS:", logEntry.message) < Occurrences("TS:", inputLine)
    /\ (inputLine = <<"TS:", "[ERROR]", "ok">> =>
          logEntry.level = "error" /\ logEntry.message = <<"ok">>)

\* the documents of this component in the collection
OwnDocs == {i \in 1..Len(store) : store[i].source = "modl-panel"}

\* C18: getRecentLogs returns the empty list when the query fails, and
\* otherwise the limit newest documents of source modl-panel (all of them
\* when there are fewer), by decreasing timestamp.
C18_RecentLogs ==
  lastOp = "getRecentLogs" =>
    LET logs == recent.logs
    IN /\ (recent.rejected => logs = <<>>)
       /\ Len(logs) <= recent.limit
       /\ \A i \in 1..Len(logs) : logs[i].source = "modl-panel"
       /\ \A i, j \in 1..Len(logs) :
            i < j => logs[i].timestamp >= logs[j].timestamp
       /\ (~recent.rejected =>
            /\ Len(logs) = Min(recent.limit, Cardinality(OwnDocs))
            /\ \A i \in 1..Len(logs) : \E m \in OwnDocs : store[m] = logs[i])

C18_Witness ==
  /\ lastOp = "getRecentLogs"
  /\ ~recent.rejected
  /\ recent.limit = 1
  /\ Cardinality(OwnDocs) = 2
  /\ \E i \in 1..Len(store) : store[i].source = "other"
  /\ Len(recent.logs) = 1
  /\ \E m \in OwnDocs : store[m].timestamp < recent.logs[1].timestamp

\* C19 (as claimed): the service is constructed not streaming, and once the
\* startup has run the enabled flag that getStatus() reports equals the
\* setting the startup acted on.
C19_EnabledFollowsConfig ==
  /\ (lastOp = "init" => ~isStreaming)
  /\ (lastOp = "startup" => (getStatus.isEnabled <=> pm2Enabled = "true"))

\* the step is the termination of a child that stop() had killed
KilledChildEnds == \E p \in ProcIds : procs[p] = "killed" /\ procs'[p] # "killed"

\* C20 (as claimed): a close or error event starts the reconnect handling
\* (a retry scheduled, or the give-up at the ceiling) exactly when
\* isStreaming is true at that moment, and the termination of a child that
\* stop() killed never schedules a retry and never changes
\* reconnectAttempts.
C20_ReconnectIffStreaming ==
  [][lastOp' \in {"close", "error"} =>
       /\ ((sched' # 0 \/ gaveUp') <=> isStreaming)
       /\ (KilledChildEnds =>
             sched' = 0 /\ reconnectAttempts' = reconnectAttempts)]_vars

DataStep == lastOp \in {"stdout", "stderr"}

\* C21 (as claimed): when a later line of a chunk is processed, the store
\* write of every earlier line has been carried out.
C21_WritesDoneBeforeNextLine ==
  DataStep =>
    \A n \in inFlight : \A i \in 1..Len(effects) : effects[i].rec <= n

\* C21 (amended): the lines of a chunk are processed in the order of the
\* chunk; for each line the save call is made first and the publish comes
\* second, both before anything is done for the next line; the writes
\* themselves are still unsettled when the listener returns.
C21_IssuedInOrder ==
  DataStep =>
    /\ \A i, j \in 1..Len(effects) :
         i < j => effects[i].rec <= effects[j].rec
    /\ \A i \in 1..Len(effects) :
         effects[i].level = records[effects[i].rec]
    /\ \A n \in 1..Len(records) :
         records[n] # "blank" =>
           \E i \in 1..(Len(effects) - 1) :
             /\ effects[i].rec = n /\ effects[i + 1].rec = n
             /\ effects[i].eff \in {"save", "saveFailed"}
             /\ effects[i + 1].eff = "emit"
             /\ \A j \in 1..(i - 1) : effects[j].rec < n
    /\ inFlight = {n \in 1..Len(records) : records[n] # "blank"}

C21_Witness ==
  /\ lastOp = "stdout"
  /\ Len(records) = 2
  /\ records[1] # records[2]
  /\ inFlight = {1, 2}
  /\ \E i \in 1..Len(effects) : effects[i].rec = 2 /\ effects[i].eff = "emit"

\* C22: a step other than stop() or disable() that leaves the service not
\* streaming after it was, or after it set out to stream, is the give-up,
\* and getStatus() then reports reconnectAttempts = 5; reconnectAttempts is
\* at most 5 in every state.
C22_GiveUpAtCeiling ==
  /\ [](getStatus.reconnectAttempts <= maxReconnectAttempts)
  /\ [][((isStreaming \/ gaveUp') /\ ~isStreaming'
           /\ lastOp' \notin {"stop", "disable"}) =>
          (gaveUp' /\ reconnectAttempts' = maxReconnectAttempts)]_vars

C22_Witness ==
  /\ gaveUp
  /\ lastOp = "timer"
  /\ ~getStatus.isStreaming
  /\ getStatus.reconnectAttempts = maxReconnectAttempts

\* C23: in every state isStreaming implies isEnabled.
C23_StreamingImpliesEnabled == isStreaming => isEnabled

\* disable() found the service streaming with a retry pending, and a timer
\* or a child of that stream is still to be heard from
C23_Witness ==
  /\ lastOp = "disable"
  /\ ~isEnabled /\ ~isStreaming
  /\ \E p \in ProcIds : procs[p] # "none"
  /\ \E t \in TimerIds : timers[t] # 0

\* C24 (as claimed): at most one child is live, and a live child is the
\* one logProcess refers to.
C24_OneLiveAttachmentHeld ==
  /\ Cardinality(LiveProcs) <= 1
  /\ (LiveProcs # {} => logProcess \in LiveProcs)

\* C25 (as claimed): at most one reconnect timer is pending, and a pending
\* timer is the one reconnectInterval refers to.
C25_OneTimerHeld ==
  /\ Cardinality(PendingTimers) <= 1
  /\ (PendingTimers # {} => reconnectInterval \in PendingTimers)

\* C26 (as claimed): the 'close' of a child that stop() killed, delivered
\* after the service was started again, leaves logProcess and
\* reconnectAttempts as they are and schedules nothing.
C26_LateCloseHarmless ==
  [][(isStreaming /\ lastOp' = "close"
        /\ \E p \in ProcIds : procs[p] = "killed" /\ procs'[p] = "none") =>
       /\ logProcess' = logProcess
       /\ reconnectAttempts' = reconnectAttempts
       /\ sched' = 0]_vars

\* the step is the 'close' of the child the service holds
HeldChildCloses ==
  /\ lastOp' = "close"
  /\ logProcess # 0
  /\ procs'[logProcess] = "none"

\* C27 (as claimed): when the child spawned by a reconnect timer closes in
\* its turn, with no operator call in between, the retry it schedules is
\* later than the first retry (the delay has grown), or the service gives
\* up.
C27_BackoffGrowsAcrossTerminations ==
  [][(lastOp = "timer" /\ spawned = "ok" /\ HeldChildCloses) =>
       (gaveUp' \/ sched' > Delay(1))]_vars

\* C28 (as claimed): when a PUT /config has completed, isEnabled equals the
\* pm2LoggingEnabled value the configuration document now holds.
C28_EnabledEqualsStoredConfig ==
  lastOp = "putConfig" => (isEnabled <=> pm2LoggingEnabled = "true")

\* C29 (as claimed): a login verification code is single-use.  For every
\* EmailCode document at most one verifyCode call returns true, whatever the
\* interleaving of the login requests, and a call returns true only for a
\* document that is neither used nor expired when it returns.
C29_CodeSingleUse ==
  /\ [](\A i \in CodeIds : accepted[i] <= 1)
  /\ [][\A i \in 1..Len(emailCodes) :
          accepted'[i] > accepted[i] =>
            (~emailCodes[i].used /\ ~emailCodes[i].expired)]_vars

\* C30 (as claimed): a request that carries a valid admin session from a
\* client IP that is not in the admin's loggedInIps, and whose admin lookup
\* does not fail, is answered 401 'IP address not authorized', and leaves
\* loggedInIps as it was.
C30_UnknownIpRejected ==
  [][(/\ lastOp' = "request"
      /\ response'.client \in sessions
      /\ adminExists
      /\ response'.ip \notin loggedInIps
      /\ response'.error # "Authentication check failed") =>
       (/\ response'.status = 401
        /\ response'.error = "IP address not authorized"
        /\ loggedInIps' = loggedInIps)]_vars
====
